---- MODULE Spec2Model ----
(***************************************************************************)
(* mda-mailchannels: one invocation of the mail-delivery-agent filter in   *)
(* src/main.rs.  The invocation reads one parsed message, resolves the     *)
(* sender, loads the sender domain's DKIM key file, classifies the         *)
(* headers, assembles the MailChannels request, serializes it and posts    *)
(* it once.  Every step of main() is one action; `pc` is the position of   *)
(* main() and `result` is how the process ended.                           *)
(*                                                                         *)
(* Strings the code takes apart (e-mail addresses, raw header values, the  *)
(* key file's text) are sequences of one-character strings.  Option<T> is  *)
(* a sequence of length 0 (None) or 1 (Some).                              *)
(***************************************************************************)
EXTENDS Integers, Sequences, FiniteSets, TLC

VARIABLES
    msg,               \* the parsed message (stdin through mail_parser), or Unparseable
    keyfile,           \* the state of the file at the key path of this invocation
    pc,                \* the step main() is at
    result,            \* "running", "Ok", "Panic" or a MainError kind
    from,              \* Option<Address>
    sender_domain,     \* Option<String>
    keyfilename,       \* Option<path>
    dkim,              \* Option<DkimInfo>
    forbidden_headers, \* HashMap<HeaderName, Vec<HeaderValue>>
    allowed_headers,   \* HashMap<String, String>
    subject,           \* Option<String>
    attachments,       \* Option<Vec<Attachment>>
    content,           \* Option<Vec<Content>>
    personalizations,  \* Option<Vec<Personalization>>
    body,              \* Option<MailChannelsBody>
    json,              \* Option<serialized request>
    sends,             \* number of POSTs issued by this invocation
    response,          \* Option<transport outcome>
    prev               \* Option<serialized request of an earlier invocation>

vars == <<msg, keyfile, pc, result, from, sender_domain, keyfilename, dkim,
          forbidden_headers, allowed_headers, subject, attachments, content,
          personalizations, body, json, sends, response, prev>>

(***************************************************************************)
(* Bounds of the model.                                                    *)
(***************************************************************************)
\* an input differs from the plain message and key file in at most this many parts
MaxVariations == 2
\* an address list of the input holds at most this many addresses
MaxAddrs == 2
\* the key file's payload holds at most this many characters
MaxPayload == 1

(***************************************************************************)
(* Option and small helpers.                                               *)
(***************************************************************************)
None == <<>>
Some(x) == <<x>>
IsSome(o) == Len(o) = 1
Unwrap(o) == o[1]

EmptyMap == [k \in {} |-> <<>>]

RECURSIVE Flatten(_)
Flatten(ss) == IF ss = <<>> THEN <<>> ELSE Head(ss) \o Flatten(Tail(ss))

RECURSIVE Filter(_, _)
Filter(s, drop) ==
    IF s = <<>> THEN <<>>
    ELSE IF Head(s) \in drop THEN Filter(Tail(s), drop)
         ELSE <<Head(s)>> \o Filter(Tail(s), drop)

\* a character that takes two bytes in UTF-8 (such as U+00E9)
TwoByte == "U+00E9"

\* the width in bytes of one character in UTF-8
Utf8Len(c) == IF c = TwoByte THEN 2 ELSE 1

RECURSIVE ByteLen(_)
ByteLen(s) == IF s = <<>> THEN 0 ELSE Utf8Len(Head(s)) + ByteLen(Tail(s))

StartsWith(s, p) == Len(s) >= Len(p) /\ SubSeq(s, 1, Len(p)) = p
EndsWith(s, p) == Len(s) >= Len(p) /\ SubSeq(s, Len(s) - Len(p) + 1, Len(s)) = p

(***************************************************************************)
(* mail_parser's view of a message, as main() uses it.                     *)
(***************************************************************************)
\* the reserved names, as HeaderName values (headers::FORBIDDEN)
FORBIDDEN ==
    { "Arc-Authentication-Results", "Bcc", "Cc", "Content-Transfer-Encoding",
      "Content-Type", "DKIM-Signature", "From", "Message-Id", "Received",
      "Reply-To", "Subject", "To" }

\* spellings of header names met in the inputs, lower-cased
Lower ==
    [n \in { "From", "from", "To", "Cc", "Bcc", "Reply-To", "Subject", "subject",
             "Received", "received", "X-A", "X-B", "x-a" } |->
        CASE n \in {"From", "from"} -> "from"
          [] n = "To" -> "to"
          [] n = "Cc" -> "cc"
          [] n = "Bcc" -> "bcc"
          [] n = "Reply-To" -> "reply-to"
          [] n \in {"Subject", "subject"} -> "subject"
          [] n \in {"Received", "received"} -> "received"
          [] n \in {"X-A", "x-a"} -> "x-a"
          [] n = "X-B" -> "x-b"]

\* HeaderName of a raw header name: a known name whatever its case, else Other(raw)
HeaderNameOf(raw) ==
    LET l == Lower[raw] IN
    CASE l = "from" -> "From"
      [] l = "to" -> "To"
      [] l = "cc" -> "Cc"
      [] l = "bcc" -> "Bcc"
      [] l = "reply-to" -> "Reply-To"
      [] l = "subject" -> "Subject"
      [] l = "received" -> "Received"
      [] OTHER -> raw

\* HeaderValue variants
AddrList(as) == [kind |-> "List", list |-> as, groups |-> <<>>, text |-> ""]
AddrGroup(gs) == [kind |-> "Group", list |-> <<>>, groups |-> gs, text |-> ""]
Text(t) == [kind |-> "Text", list |-> <<>>, groups |-> <<>>, text |-> t]
Empty == [kind |-> "Empty", list |-> <<>>, groups |-> <<>>, text |-> ""]

\* HeaderValue::into_address
into_address(v) == IF v.kind \in {"List", "Group"} THEN Some(v) ELSE None

\* Address::iter: the addresses of a list, or of every group in turn
AddrIter(a) == IF a.kind = "List" THEN a.list ELSE Flatten(a.groups)

\* HeaderValue::into_text
into_text(v) == IF v.kind = "Text" THEN Some(v.text) ELSE None

Header(n, v, r) == [name |-> n, value |-> v, raw |-> r]

\* Message::from: the value of the last From header, when it is an address
MsgFrom(m) ==
    LET idx == { i \in 1..Len(m.headers) : HeaderNameOf(m.headers[i].name) = "From" } IN
    IF idx = {} THEN None
    ELSE LET last == CHOOSE i \in idx : \A j \in idx : j <= i IN
         into_address(m.headers[last].value)

(***************************************************************************)
(* The inputs: a plain message and key file, varied in at most             *)
(* MaxVariations of their parts.                                           *)
(***************************************************************************)
Digits == <<"1", "2", "3", "4">>

Addr(n, e) == [name |-> n, email |-> e]
Mailbox(local, i) == Addr(None, Some(<<local, Digits[i], "@", "y">>))
NoEmail == Addr(Some("nobody"), None)

\* the first k mailboxes of one header
Mailboxes(local, k) == [i \in 1..k |-> Mailbox(local, i)]

Sender == Addr(Some("A"), Some(<<"a", "@", "x">>))
RawAddr == <<" ", "m">>

FromVariants ==
    << <<>>,
       <<Header("From", Empty, <<" ">>)>>,
       <<Header("From", AddrGroup(<<Mailboxes("g", 1)>>), RawAddr)>>,
       <<Header("From", AddrList(<<Sender, Mailbox("a", 1)>>), RawAddr)>>,
       <<Header("From", AddrList(<<NoEmail>>), RawAddr)>>,
       <<Header("From", AddrList(<<Addr(None, Some(<<"r">>))>>), RawAddr)>>,
       <<Header("From", AddrList(<<Addr(None, Some(<<"a", "@", "b", "@", "x">>))>>), RawAddr)>>,
       <<Header("From", AddrList(<<NoEmail>>), RawAddr), Header("from", AddrList(<<Sender>>), RawAddr)>> >>

AddrVariants(name, local) ==
    [k \in 1..MaxAddrs |-> <<Header(name, AddrList(Mailboxes(local, k)), RawAddr)>>]
    \o << <<Header(name, AddrGroup(<<Mailboxes(local, 1), <<>>, Mailboxes(local, MaxAddrs)>>), RawAddr)>>,
          <<Header(name, AddrGroup(<< <<>> >>), RawAddr)>>,
          <<Header(name, Empty, <<" ">>)>>,
          <<Header(name, AddrList(<<NoEmail>>), RawAddr)>>,
          <<Header(name, AddrList(Mailboxes(local, 1)), RawAddr),
            Header(name, AddrList(<<Mailbox("u", 1)>>), RawAddr)>> >>

\* To: the plain message has one To address, so the first variant is "no To header"
ToVariants == << <<>> >> \o Tail(AddrVariants("To", "t"))

ReplyToVariants == AddrVariants("Reply-To", "r")

CcBccVariants ==
    << <<Header("Cc", AddrList(Mailboxes("c", 1)), RawAddr)>>,
       <<Header("Cc", AddrList(Mailboxes("c", 1)), RawAddr),
         Header("Bcc", AddrGroup(<<Mailboxes("b", 1)>>), RawAddr)>>,
       <<Header("Cc", Text("m"), RawAddr)>>,
       <<Header("Bcc", AddrList(<<NoEmail>>), RawAddr)>> >>

\* The last one is an encoded word with nothing in it, which decodes to the
\* empty text.
SubjectVariants ==
    << <<>>,
       <<Header("Subject", Empty, <<" ">>)>>,
       <<Header("Subject", Text("s"), <<" ", "s">>), Header("subject", Text("t"), <<" ", "t">>)>>,
       <<Header("subject", Text("t"), <<" ", "t">>)>>,
       <<Header("Subject", Text(""), <<" ", "=", "?", "u", "t", "f", "-", "8", "?", "q", "?", "?", "=">>)>> >>

OtherVariants ==
    << <<Header("X-A", Text("1"), <<" ", "1">>)>>,
       <<Header("X-A", Text("1"), <<" ", "1">>), Header("X-A", Text("2"), <<" ", "2">>)>>,
       <<Header("X-A", Text("1"), <<" ", "1">>), Header("X-B", Text("2"), <<" ", "2">>)>>,
       <<Header("X-A", Text("1"), <<" ", "1">>), Header("received", Text("h"), <<" ", "h">>),
         Header("x-a", Text("2"), <<" ", "2">>)>>,
       <<Header("X-B", Text("3"), <<"3">>)>>,
       <<Header("X-A", Empty, <<>>)>> >>

\* a body part: its content type (ctype, subtype), its bytes (with whether they
\* are valid UTF-8) and an attachment's file name
Part(ct, b, fname) == [content_type |-> ct, bytes |-> b, filename |-> fname]
Bytes(valid, data) == [utf8 |-> valid, data |-> data]
ContentType(c, s) == [ctype |-> c, subtype |-> s]
PlainPart == Part(Some(ContentType("text", Some("plain"))), Bytes(TRUE, "hello"), None)
HtmlPart == Part(Some(ContentType("text", Some("html"))), Bytes(TRUE, "<p>hello</p>"), None)
Invoice == Part(Some(ContentType("application", Some("pdf"))), Bytes(FALSE, "%PDF"), Some("invoice.pdf"))
Parts(a, h, t) == [attachments |-> a, html |-> h, text |-> t]

PlainParts == Parts(<<>>, <<>>, <<PlainPart>>)

PartsVariants ==
    << Parts(<<Invoice>>, <<HtmlPart>>, <<PlainPart>>),
       Parts(<<Invoice, Part(None, Bytes(FALSE, "%PDF"), None)>>, <<>>, <<PlainPart>>),
       Parts(<<>>, <<Part(None, Bytes(FALSE, "<p>"), None)>>, <<PlainPart>>),
       Parts(<<>>, <<HtmlPart>>, <<Part(None, Bytes(TRUE, "hello"), None)>>),
       Parts(<<>>, <<>>, <<Part(Some(ContentType("text", None)), Bytes(TRUE, "hello"), None)>>) >>

\* the literal PEM envelope lines
HEADER ==
    << "-", "-", "-", "-", "-", "B", "E", "G", "I", "N", " ", "P", "R", "I", "V", "A", "T", "E",
       " ", "K", "E", "Y", "-", "-", "-", "-", "-", "\n" >>
FOOTER ==
    << "-", "-", "-", "-", "-", "E", "N", "D", " ", "P", "R", "I", "V", "A", "T", "E",
       " ", "K", "E", "Y", "-", "-", "-", "-", "-", "\n" >>

PayloadChars == {"A", "\n", "\r", TwoByte}
Payloads == UNION { [1..n -> PayloadChars] : n \in 0..MaxPayload }

\* the key file: absent, not stat-able, not openable, not UTF-8, or its text
File(k, c) == [kind |-> k, contents |-> c]
PlainFile == File("text", HEADER \o <<"A", "\n", "A", "\n">> \o FOOTER)

SetToSeq(S) ==
    LET RECURSIVE Go(_)
        Go(T) == IF T = {} THEN <<>>
                 ELSE LET x == CHOOSE y \in T : TRUE IN <<x>> \o Go(T \ {x})
    IN Go(S)

FileVariants ==
    << File("absent", <<>>),
       File("staterr", <<>>),
       File("noaccess", <<>>),
       File("notutf8", <<>>),
       File("text", <<"A">> \o FOOTER),
       File("text", HEADER \o <<"A", "\n">>),
       File("text", HEADER \o <<"A", "\n">> \o SubSeq(FOOTER, 1, Len(FOOTER) - 1)),
       File("text", Tail(HEADER) \o <<"A", "\n">> \o FOOTER) >>
    \o SetToSeq({ File("text", HEADER \o p \o FOOTER) : p \in Payloads })

\* the parts of an input, each with the value of the plain input and its variants
Plain ==
    << <<Header("From", AddrList(<<Sender>>), RawAddr)>>,
       <<Header("To", AddrList(Mailboxes("t", 1)), RawAddr)>>,
       <<>>,
       <<>>,
       <<Header("Subject", Text("s"), <<" ", "s">>)>>,
       <<>>,
       PlainParts,
       PlainFile >>

Variants ==
    << FromVariants, ToVariants, CcBccVariants, ReplyToVariants, SubjectVariants,
       OtherVariants, PartsVariants, FileVariants >>

NParts == Len(Plain)

\* the choices of a variant (0: the plain value) for the first d parts, at most
\* `budget` of them not plain
RECURSIVE Choices(_, _)
Choices(d, budget) ==
    IF d = 0 THEN { <<>> }
    ELSE { Append(c, 0) : c \in Choices(d - 1, budget) }
         \cup (IF budget = 0 THEN {}
               ELSE { Append(c, v) : c \in Choices(d - 1, budget - 1),
                                      v \in 1..Len(Variants[d]) })

Pick(c, d) == IF c[d] = 0 THEN Plain[d] ELSE Variants[d][c[d]]

Unparseable == [headers |-> <<>>, parts |-> PlainParts, parsed |-> FALSE]

Message(c) ==
    [headers |-> Pick(c, 1) \o Pick(c, 2) \o Pick(c, 3) \o Pick(c, 4) \o Pick(c, 5) \o Pick(c, 6),
     parts |-> Pick(c, 7),
     parsed |-> TRUE]

Inputs ==
    { [msg |-> Message(c), keyfile |-> Pick(c, 8)] : c \in Choices(NParts, MaxVariations) }
    \cup { [msg |-> Unparseable, keyfile |-> PlainFile] }

(***************************************************************************)
(* Results of fallible steps.                                              *)
(***************************************************************************)
Ok(v) == [ok |-> TRUE, val |-> v, err |-> ""]
Err(k) == [ok |-> FALSE, val |-> <<>>, err |-> k]

Init ==
    /\ \E in \in Inputs : msg = in.msg /\ keyfile = in.keyfile
    /\ pc = "parse"
    /\ result = "running"
    /\ from = None
    /\ sender_domain = None
    /\ keyfilename = None
    /\ dkim = None
    /\ forbidden_headers = EmptyMap
    /\ allowed_headers = EmptyMap
    /\ subject = None
    /\ attachments = None
    /\ content = None
    /\ personalizations = None
    /\ body = None
    /\ json = None
    /\ sends = 0
    /\ response = None
    /\ prev = None

\* the steps with the headers classified and the Subject resolved before the key
\* file is looked at
StepsHeadersFirst ==
    << "parse", "from", "classify", "subject", "domain", "keyfile", "dkim",
       "attachments", "content", "personalization", "replyto", "serialize",
       "send", "response" >>

\* the order of the steps of main()
Steps ==
    << "parse", "from", "domain", "keyfile", "dkim", "classify", "subject",
       "attachments", "content", "personalization", "replyto", "serialize",
       "send", "response" >>

StepIndex(s) == CHOOSE i \in 1..Len(Steps) : Steps[i] = s

NextStep(s) == Steps[StepIndex(s) + 1]

At(s) == result = "running" /\ pc = s

\* the step returns Err(kind) from main(), or panics: the process ends here
Fail(kind) == result' = kind /\ pc' = pc

Goto(s) == result' = result /\ pc' = s

\* lines 206-210: parser.parse(&buf).ok_or(NoHeaders)
Parse ==
    /\ At("parse")
    /\ IF msg.parsed THEN Goto(NextStep("parse")) ELSE Fail("NoHeaders")
    /\ UNCHANGED <<msg, keyfile, from, sender_domain, keyfilename, dkim,
                   forbidden_headers, allowed_headers, subject, attachments, content,
                   personalizations, body, json, sends, response, prev>>

\* lines 226-256: the single From address
from_address(m) ==
    LET f == MsgFrom(m) IN
    IF ~IsSome(f) THEN Err("InvalidFrom")
    ELSE IF Unwrap(f).kind = "Group" THEN Err("InvalidFrom")
    ELSE LET addresses == Unwrap(f).list IN
         IF Len(addresses) > 1 THEN Err("InvalidFrom")
         ELSE IF Len(addresses) = 0 THEN Err("InvalidFrom")
         ELSE IF ~IsSome(addresses[1].email) THEN Err("InvalidFrom")
         ELSE Ok(Addr(addresses[1].name, Unwrap(addresses[1].email)))

ResolveFrom ==
    /\ At("from")
    /\ LET r == from_address(msg) IN
       IF r.ok THEN from' = Some(r.val) /\ Goto(NextStep("from"))
       ELSE from' = from /\ Fail(r.err)
    /\ UNCHANGED <<msg, keyfile, sender_domain, keyfilename, dkim,
                   forbidden_headers, allowed_headers, subject, attachments, content,
                   personalizations, body, json, sends, response, prev>>

\* str::split: the pieces of s between occurrences of sep (always at least one piece)
RECURSIVE Split(_, _)
Split(s, sep) ==
    LET idx == { i \in 1..Len(s) : s[i] = sep } IN
    IF idx = {} THEN <<s>>
    ELSE LET i == CHOOSE j \in idx : \A k \in idx : j <= k IN
         <<SubSeq(s, 1, i - 1)>> \o Split(SubSeq(s, i + 1, Len(s)), sep)

\* DoubleEndedIterator::next_back
next_back(pieces) == IF pieces = <<>> THEN None ELSE Some(pieces[Len(pieces)])

\* lines 258-267: from.email.split('@').next_back().ok_or(NoSenderDomain)
sender_domain_of(email) ==
    LET last == next_back(Split(email, "@")) IN
    IF IsSome(last) THEN Ok(Unwrap(last)) ELSE Err("NoSenderDomain")

SenderDomain ==
    /\ At("domain")
    /\ LET r == sender_domain_of(Unwrap(from).email) IN
       IF r.ok THEN sender_domain' = Some(r.val) /\ Goto(NextStep("domain"))
       ELSE sender_domain' = sender_domain /\ Fail(r.err)
    /\ UNCHANGED <<msg, keyfile, from, keyfilename, dkim,
                   forbidden_headers, allowed_headers, subject, attachments, content,
                   personalizations, body, json, sends, response, prev>>

\* line 269: format!("/etc/mail/dkim/{}.key.pem", sender_domain)
KeyPath(domain) == <<"/etc/mail/dkim/">> \o domain \o <<".key.pem">>

\* lines 270-279: try_exists on the key path
keyfile_exists(f) ==
    IF f.kind = "staterr" THEN Err("NoDkimForDomain")
    ELSE IF f.kind = "absent" THEN Err("NoDkimForDomain")
    ELSE Ok(TRUE)

KeyFileExists ==
    /\ At("keyfile")
    /\ keyfilename' = Some(KeyPath(Unwrap(sender_domain)))
    /\ LET r == keyfile_exists(keyfile) IN
       IF r.ok THEN Goto(NextStep("keyfile")) ELSE Fail(r.err)
    /\ UNCHANGED <<msg, keyfile, from, sender_domain, dkim,
                   forbidden_headers, allowed_headers, subject, attachments, content,
                   personalizations, body, json, sends, response, prev>>

Min(a, b) == IF a < b THEN a ELSE b

\* lines 305-310: chars().skip(HEADER.len()).take(len - HEADER.len() - FOOTER.len())
\* without CR and LF; len is the file's length in bytes
private_key(contents) ==
    LET pem_file_len == ByteLen(contents)
        n == pem_file_len - Len(HEADER) - Len(FOOTER)
    IN Filter(SubSeq(contents, Len(HEADER) + 1, Min(Len(contents), Len(HEADER) + n)),
              {"\n", "\r"})

\* lines 284-310: open and read the key file, check the PEM envelope
dkim_private_key(f) ==
    IF f.kind = "noaccess" THEN Err("Io")
    ELSE IF f.kind = "notutf8" THEN Err("Io")
    ELSE IF ~StartsWith(f.contents, HEADER) THEN Err("DkimKeyDecodeFailed")
    ELSE IF ~EndsWith(f.contents, FOOTER) THEN Err("DkimKeyDecodeFailed")
    ELSE Ok(private_key(f.contents))

\* line 17: the selector is a build-time constant
dkim_selector == "selector"

LoadDkim ==
    /\ At("dkim")
    /\ LET r == dkim_private_key(keyfile) IN
       IF r.ok
       THEN /\ dkim' = Some([dkim_domain |-> Unwrap(sender_domain),
                             dkim_private_key |-> r.val,
                             dkim_selector |-> dkim_selector])
            /\ Goto(NextStep("dkim"))
       ELSE dkim' = dkim /\ Fail(r.err)
    /\ UNCHANGED <<msg, keyfile, from, sender_domain, keyfilename,
                   forbidden_headers, allowed_headers, subject, attachments, content,
                   personalizations, body, json, sends, response, prev>>

\* slice::contains over headers::FORBIDDEN
is_forbidden(name) == name \in FORBIDDEN

\* HashMap::get
get(m, k) == IF k \in DOMAIN m THEN Some(m[k]) ELSE None

\* insert that keeps the value a key already has
insert_keep_first(m, k, v) == [x \in DOMAIN m \cup {k} |-> IF x \in DOMAIN m THEN m[x] ELSE v]

\* HashMap::insert: the new value replaces the old one
insert(m, k, v) == [x \in DOMAIN m \cup {k} |-> IF x = k THEN v ELSE m[x]]

\* lines 315-328: every occurrence of a reserved header, by HeaderName
RECURSIVE forbidden_of(_, _)
forbidden_of(hs, acc) ==
    IF hs = <<>> THEN acc
    ELSE LET h == Head(hs)
             n == HeaderNameOf(h.name)
         IN IF ~is_forbidden(n) THEN forbidden_of(Tail(hs), acc)
            ELSE IF n \in DOMAIN acc
                 THEN forbidden_of(Tail(hs), [acc EXCEPT ![n] = Append(@, h.value)])
                 ELSE forbidden_of(Tail(hs), insert(acc, n, <<h.value>>))

\* line 332: &header.1[1..], which panics on an empty value and when byte 1 is
\* inside a character
slice_from_1(raw) ==
    IF raw = <<>> THEN None
    ELSE IF Utf8Len(raw[1]) > 1 THEN None
    ELSE Some(Tail(raw))

\* lines 329-333: the other headers, by raw name, collected into a HashMap
RECURSIVE allowed_of(_, _)
allowed_of(hs, acc) ==
    IF hs = <<>> THEN Ok(acc)
    ELSE LET h == Head(hs) IN
         IF is_forbidden(HeaderNameOf(h.name)) THEN allowed_of(Tail(hs), acc)
         ELSE IF ~IsSome(slice_from_1(h.raw)) THEN Err("Panic")
         ELSE allowed_of(Tail(hs), insert(acc, h.name, Unwrap(slice_from_1(h.raw))))

ClassifyHeaders ==
    /\ At("classify")
    /\ forbidden_headers' = forbidden_of(msg.headers, EmptyMap)
    /\ LET r == allowed_of(msg.headers, EmptyMap) IN
       IF r.ok THEN allowed_headers' = r.val /\ Goto(NextStep("classify"))
       ELSE allowed_headers' = allowed_headers /\ Fail(r.err)
    /\ UNCHANGED <<msg, keyfile, from, sender_domain, keyfilename, dkim,
                   subject, attachments, content,
                   personalizations, body, json, sends, response, prev>>

\* lines 335-346: the single Subject and its text
subject_of(fh) ==
    LET s == get(fh, "Subject") IN
    IF ~IsSome(s) THEN Err("MissingHeader")
    ELSE IF Len(Unwrap(s)) = 0 THEN Err("Panic")
    ELSE IF Len(Unwrap(s)) >= 2 THEN Err("TooManyHeaders")
    ELSE LET t == into_text(Unwrap(s)[1]) IN
         IF IsSome(t) THEN Ok(Unwrap(t)) ELSE Err("MissingHeader")

ResolveSubject ==
    /\ At("subject")
    /\ LET r == subject_of(forbidden_headers) IN
       IF r.ok THEN subject' = Some(r.val) /\ Goto(NextStep("subject"))
       ELSE subject' = subject /\ Fail(r.err)
    /\ UNCHANGED <<msg, keyfile, from, sender_domain, keyfilename, dkim,
                   forbidden_headers, allowed_headers, attachments, content,
                   personalizations, body, json, sends, response, prev>>

\* collect::<Result<Vec<_>, _>>(): the values, or the first error
RECURSIVE Collect(_)
Collect(rs) ==
    IF rs = <<>> THEN Ok(<<>>)
    ELSE IF ~Head(rs).ok THEN Head(rs)
    ELSE LET rest == Collect(Tail(rs)) IN
         IF rest.ok THEN Ok(<<Head(rs).val>> \o rest.val) ELSE rest

\* lines 351-358: an attachment needs a file name; its type is always text/plain
attachment_of(part) ==
    IF IsSome(part.filename)
    THEN Ok([filename |-> Unwrap(part.filename), mimetype |-> "text/plain",
             content |-> part.bytes])
    ELSE Err("AttachmentIssue")

ExtractAttachments ==
    /\ At("attachments")
    /\ LET r == Collect([i \in 1..Len(msg.parts.attachments) |->
                            attachment_of(msg.parts.attachments[i])]) IN
       IF r.ok THEN attachments' = Some(r.val) /\ Goto(NextStep("attachments"))
       ELSE attachments' = attachments /\ Fail(r.err)
    /\ UNCHANGED <<msg, keyfile, from, sender_domain, keyfilename, dkim,
                   forbidden_headers, allowed_headers, subject, content,
                   personalizations, body, json, sends, response, prev>>

\* lines 149-166: "ctype" or "ctype/subtype"
stringify_content_type(ct) ==
    IF IsSome(ct.subtype) THEN <<ct.ctype, "/", Unwrap(ct.subtype)>> ELSE <<ct.ctype>>

\* String::from_utf8
from_utf8(b) == IF b.utf8 THEN Ok(b.data) ELSE Err("InvalidUtf8")

\* lines 363-371 and 372-380: one Content per body part
content_of(part) ==
    LET v == from_utf8(part.bytes) IN
    IF ~v.ok THEN v
    ELSE IF ~IsSome(part.content_type) THEN Err("AttachmentIssue")
    ELSE Ok([template_type |-> None,
             content_type |-> stringify_content_type(Unwrap(part.content_type)),
             value |-> v.val])

\* lines 361-381: the HTML bodies, then the plain-text bodies
ExtractContent ==
    /\ At("content")
    /\ LET bodies == msg.parts.html \o msg.parts.text
           r == Collect([i \in 1..Len(bodies) |-> content_of(bodies[i])])
       IN IF r.ok THEN content' = Some(r.val) /\ Goto(NextStep("content"))
          ELSE content' = content /\ Fail(r.err)
    /\ UNCHANGED <<msg, keyfile, from, sender_domain, keyfilename, dkim,
                   forbidden_headers, allowed_headers, subject, attachments,
                   personalizations, body, json, sends, response, prev>>

\* lines 179-187: an Addr becomes an Address; one without an email panics
address_of(addr) ==
    IF IsSome(addr.email) THEN Ok(Addr(addr.name, Unwrap(addr.email))) ELSE Err("Panic")

\* lines 168-189: the addresses of every value, in order; a value that is not an
\* address panics
RECURSIVE flatten_addresses(_)
flatten_addresses(v) ==
    IF v = <<>> THEN Ok(<<>>)
    ELSE LET a == into_address(Head(v)) IN
         IF ~IsSome(a) THEN Err("Panic")
         ELSE LET addrs == AddrIter(Unwrap(a))
                  here == Collect([i \in 1..Len(addrs) |-> address_of(addrs[i])])
                  rest == flatten_addresses(Tail(v))
              IN IF ~here.ok THEN here
                 ELSE IF ~rest.ok THEN rest
                 ELSE Ok(here.val \o rest.val)

\* Option::map(flatten_addresses)
map_flatten(o) ==
    IF ~IsSome(o) THEN Ok(None)
    ELSE LET r == flatten_addresses(Unwrap(o)) IN
         IF r.ok THEN Ok(Some(r.val)) ELSE r

\* lines 388-405: the one Personalization: bcc, cc, then to
personalization_of(fh) ==
    LET bcc == map_flatten(get(fh, "Bcc"))
        cc == map_flatten(get(fh, "Cc"))
        to == map_flatten(get(fh, "To"))
    IN IF ~bcc.ok THEN bcc
       ELSE IF ~cc.ok THEN cc
       ELSE IF ~to.ok THEN to
       ELSE IF ~IsSome(to.val) THEN Err("MissingHeader")
       ELSE Ok([bcc |-> bcc.val, cc |-> cc.val, to |-> Unwrap(to.val)])

BuildPersonalization ==
    /\ At("personalization")
    /\ LET r == personalization_of(forbidden_headers) IN
       IF r.ok THEN personalizations' = Some(<<r.val>>) /\ Goto(NextStep("personalization"))
       ELSE personalizations' = personalizations /\ Fail(r.err)
    /\ UNCHANGED <<msg, keyfile, from, sender_domain, keyfilename, dkim,
                   forbidden_headers, allowed_headers, subject, attachments, content,
                   body, json, sends, response, prev>>

\* reply_to_of without the arm that rejects two or more addresses
reply_to_of_last(fh) ==
    LET r == map_flatten(get(fh, "Reply-To")) IN
    IF ~r.ok THEN r
    ELSE IF ~IsSome(r.val) THEN Ok(None)
    ELSE LET v == Unwrap(r.val) IN
         IF Len(v) = 0 THEN Err("Panic") ELSE Ok(Some(v[Len(v)]))

\* lines 406-415: at most one Reply-To address; v.pop().unwrap() panics on none
reply_to_of(fh) ==
    LET r == map_flatten(get(fh, "Reply-To")) IN
    IF ~r.ok THEN r
    ELSE IF ~IsSome(r.val) THEN Ok(None)
    ELSE LET v == Unwrap(r.val) IN
         IF Len(v) > 1 THEN Err("TooManyHeaders")
         ELSE IF Len(v) = 0 THEN Err("Panic")
         ELSE Ok(Some(v[Len(v)]))

\* lines 348-419: the last field expression, then the MailChannelsBody itself
ResolveReplyTo ==
    /\ At("replyto")
    /\ LET r == reply_to_of(forbidden_headers) IN
       IF r.ok
       THEN /\ body' = Some([attachments |-> attachments,
                             content |-> Unwrap(content),
                             dkim |-> Unwrap(dkim),
                             from |-> Unwrap(from),
                             headers |-> IF DOMAIN allowed_headers = {} THEN None
                                         ELSE Some(allowed_headers),
                             personalizations |-> Unwrap(personalizations),
                             reply_to |-> r.val,
                             subject |-> Unwrap(subject)])
            /\ Goto(NextStep("replyto"))
       ELSE body' = body /\ Fail(r.err)
    /\ UNCHANGED <<msg, keyfile, from, sender_domain, keyfilename, dkim,
                   forbidden_headers, allowed_headers, subject, attachments, content,
                   personalizations, json, sends, response, prev>>

(***************************************************************************)
(* serde_json::to_string: a JSON text is the tree of its values, an object *)
(* being the sequence of its (key, value) members in the order written.    *)
(***************************************************************************)
JNull == <<"null">>
JStr(x) == <<"str", x>>
JArr(xs) == <<"arr", xs>>
JObj(members) == <<"obj", members>>

JOptStr(o) == IF IsSome(o) THEN JStr(Unwrap(o)) ELSE JNull

\* a field under skip_serializing_none: no member when None
Skippable(key, o) == IF IsSome(o) THEN << <<key, Unwrap(o)>> >> ELSE <<>>

\* lines 122-126
address_json(a) == JObj(<< <<"name", JOptStr(a.name)>>, <<"email", JStr(a.email)>> >>)

addresses_json(as) == JArr([i \in 1..Len(as) |-> address_json(as[i])])

JOptAddrs(o) == IF IsSome(o) THEN addresses_json(Unwrap(o)) ELSE JNull

\* lines 62-70
attachment_json(a) ==
    JObj(<< <<"content", <<"base64", a.content>> >>,
            <<"filename", JStr(a.filename)>>,
            <<"type", JStr(a.mimetype)>> >>)

attachments_json(as) == JArr([i \in 1..Len(as) |-> attachment_json(as[i])])

\* lines 72-78
content_json(c) ==
    JObj(<< <<"template_type", JOptStr(c.template_type)>>,
            <<"type", JStr(c.content_type)>>,
            <<"value", JStr(c.value)>> >>)

\* lines 88-100: no field of a Personalization is skipped; the flattened dkim
\* of None adds no member
personalization_json(p) ==
    JObj(<< <<"bcc", JOptAddrs(p.bcc)>>,
            <<"cc", JOptAddrs(p.cc)>>,
            <<"dynamic_template_data", JNull>>,
            <<"from", JNull>>,
            <<"headers", JNull>>,
            <<"reply_to", JNull>>,
            <<"subject", JNull>>,
            <<"to", addresses_json(p.to)>> >>)

\* a HashMap serializes its entries in its iteration order
map_json(m, order) == JObj([i \in 1..Len(order) |-> <<order[i], JStr(m[order[i]])>>])

\* the iteration orders a HashMap with RandomState can have: every order of its keys
Orders(keys) ==
    { o \in [1..Cardinality(keys) -> keys] : \A i, j \in 1..Cardinality(keys) : o[i] = o[j] => i = j }

HeaderKeys(b) == IF IsSome(b.headers) THEN DOMAIN Unwrap(b.headers) ELSE {}

\* lines 45-60 and 420
to_string(b, order) ==
    JObj(Skippable("attachments",
                   IF IsSome(b.attachments)
                   THEN Some(attachments_json(Unwrap(b.attachments))) ELSE None)
         \o << <<"content", JArr([i \in 1..Len(b.content) |-> content_json(b.content[i])])>>,
               <<"dkim_domain", JStr(b.dkim.dkim_domain)>>,
               <<"dkim_private_key", JStr(b.dkim.dkim_private_key)>>,
               <<"dkim_selector", JStr(b.dkim.dkim_selector)>>,
               <<"from", address_json(b.from)>> >>
         \o Skippable("headers",
                      IF IsSome(b.headers)
                      THEN Some(map_json(Unwrap(b.headers), order)) ELSE None)
         \o << <<"personalizations",
                 JArr([i \in 1..Len(b.personalizations) |->
                          personalization_json(b.personalizations[i])])>> >>
         \o Skippable("reply_to",
                      IF IsSome(b.reply_to)
                      THEN Some(address_json(Unwrap(b.reply_to))) ELSE None)
         \o << <<"subject", JStr(b.subject)>>,
               <<"transactional", JNull>> >>)

Serialize ==
    /\ At("serialize")
    /\ \E order \in Orders(HeaderKeys(Unwrap(body))) :
          json' = Some(to_string(Unwrap(body), order))
    /\ Goto(NextStep("serialize"))
    /\ UNCHANGED <<msg, keyfile, from, sender_domain, keyfilename, dkim,
                   forbidden_headers, allowed_headers, subject, attachments, content,
                   personalizations, body, sends, response, prev>>

\* what the transport can answer: no response at all, or a status
Statuses == {200, 202, 500}
Outcomes ==
    { [arrived |-> FALSE, status |-> 0] }
    \cup { [arrived |-> TRUE, status |-> s] : s \in Statuses }

\* lines 424-441: one POST; a transport failure is Err(Reqwest)
Send ==
    /\ At("send")
    /\ sends' = sends + 1
    /\ \E o \in Outcomes :
          IF o.arrived THEN response' = Some(o) /\ Goto(NextStep("send"))
          ELSE response' = response /\ Fail("Reqwest")
    /\ UNCHANGED <<msg, keyfile, from, sender_domain, keyfilename, dkim,
                   forbidden_headers, allowed_headers, subject, attachments, content,
                   personalizations, body, json, prev>>

\* lines 442-458: 200 and 202 are success, any other status is Err(API); reading
\* the response text can fail
InterpretResponse ==
    /\ At("response")
    /\ \E text_read \in BOOLEAN :
          IF ~text_read THEN Fail("Reqwest")
          ELSE IF Unwrap(response).status \in {200, 202} THEN Fail("Ok")
          ELSE Fail("API")
    /\ UNCHANGED <<msg, keyfile, from, sender_domain, keyfilename, dkim,
                   forbidden_headers, allowed_headers, subject, attachments, content,
                   personalizations, body, json, sends, response, prev>>

\* the same message is delivered again with the same key file: a new process
Rerun ==
    /\ result # "running"
    /\ IsSome(json)
    /\ prev = None
    /\ prev' = json
    /\ pc' = "parse"
    /\ result' = "running"
    /\ from' = None
    /\ sender_domain' = None
    /\ keyfilename' = None
    /\ dkim' = None
    /\ forbidden_headers' = EmptyMap
    /\ allowed_headers' = EmptyMap
    /\ subject' = None
    /\ attachments' = None
    /\ content' = None
    /\ personalizations' = None
    /\ body' = None
    /\ json' = None
    /\ sends' = 0
    /\ response' = None
    /\ UNCHANGED <<msg, keyfile>>

Next ==
    \/ Parse
    \/ ResolveFrom
    \/ SenderDomain
    \/ KeyFileExists
    \/ LoadDkim
    \/ ClassifyHeaders
    \/ ResolveSubject
    \/ ExtractAttachments
    \/ ExtractContent
    \/ BuildPersonalization
    \/ ResolveReplyTo
    \/ Serialize
    \/ Send
    \/ InterpretResponse

Spec == Init /\ [][Next]_vars

NextRerun == Next \/ Rerun

SpecRerun == Init /\ [][NextRerun]_vars

(***************************************************************************)
(* What the input says, read off the message itself.                       *)
(***************************************************************************)
Done == result # "running"

\* step s has run (to its end, or to the error that ended the process)
Acted(s) == StepIndex(pc) > StepIndex(s) \/ (pc = s /\ Done)

\* step s has run and passed
Passed(s) == StepIndex(pc) > StepIndex(s)

Occurrences(name) ==
    LET Named(h) == HeaderNameOf(h.name) = name IN SelectSeq(msg.headers, Named)

ListedAddrs(v) ==
    IF v.kind = "List" THEN v.list
    ELSE IF v.kind = "Group" THEN Flatten(v.groups)
    ELSE <<>>

\* the addresses the headers of this name list, occurrence by occurrence
InputAddrs(name) ==
    LET occ == Occurrences(name) IN
    Flatten([i \in 1..Len(occ) |-> ListedAddrs(occ[i].value)])

\* every occurrence is an address value and every address has an email
Sound(name) ==
    /\ \A i \in 1..Len(Occurrences(name)) : Occurrences(name)[i].value.kind \in {"List", "Group"}
    /\ \A i \in 1..Len(InputAddrs(name)) : IsSome(InputAddrs(name)[i].email)

\* the input addresses as the request carries them
Expected(name) ==
    [i \in 1..Len(InputAddrs(name)) |->
        Addr(InputAddrs(name)[i].name, Unwrap(InputAddrs(name)[i].email))]

\* C1: when the To headers list no address the run ends with MissingHeader and no
\* request is built; otherwise the Personalization's `to` list is the input's To
\* addresses in order, so an assembled request has at least one recipient.
\* (Stated for inputs whose Bcc, Cc and To headers are all address values whose
\* addresses all have an email.)
C1_ToListIsInputTo ==
    (Acted("personalization") /\ Sound("Bcc") /\ Sound("Cc") /\ Sound("To")) =>
        IF InputAddrs("To") = <<>>
        THEN result = "MissingHeader" /\ pc = "personalization" /\ body = None
        ELSE /\ IsSome(personalizations)
             /\ Unwrap(personalizations)[1].to = Expected("To")

\* C4: no Reply-To address leaves reply_to unset, one address becomes reply_to,
\* two or more end with TooManyHeaders; nothing else comes of the Reply-To count.
\* (Stated for inputs whose Reply-To headers are all address values whose
\* addresses all have an email.)
C4_ReplyToArity ==
    (Acted("replyto") /\ Sound("Reply-To")) =>
        CASE Len(InputAddrs("Reply-To")) = 0 ->
                IsSome(body) /\ Unwrap(body).reply_to = None
          [] Len(InputAddrs("Reply-To")) = 1 ->
                IsSome(body) /\ Unwrap(body).reply_to = Some(Expected("Reply-To")[1])
          [] OTHER ->
                result = "TooManyHeaders" /\ pc = "replyto"

HasAt(email) == \E i \in 1..Len(email) : email[i] = "@"

\* the text after the last "@"
AfterLastAt(email) ==
    LET i == CHOOSE j \in 1..Len(email) :
                 email[j] = "@" /\ \A k \in (j + 1)..Len(email) : email[k] # "@"
    IN SubSeq(email, i + 1, Len(email))

\* C5: a From email with an "@" gives the domain after its last "@"; one without
\* "@" ends the run with NoSenderDomain and no key file is looked up.
C5_SenderDomain ==
    Acted("domain") =>
        IF HasAt(Unwrap(from).email)
        THEN sender_domain = Some(AfterLastAt(Unwrap(from).email))
        ELSE result = "NoSenderDomain" /\ keyfilename = None

\* the text strictly between the PEM header line and the PEM footer line
Between(contents) == SubSeq(contents, Len(HEADER) + 1, Len(contents) - Len(FOOTER))

WithoutCrLf(s) == LET Kept(c) == c \notin {"\n", "\r"} IN SelectSeq(s, Kept)

Enveloped(f) ==
    f.kind = "text" /\ StartsWith(f.contents, HEADER) /\ EndsWith(f.contents, FOOTER)

\* C6: a key file that is absent or cannot be read ends the run with
\* NoDkimForDomain; one read without the exact PEM header or footer ends it with
\* DkimKeyDecodeFailed; otherwise dkim_private_key is the text between header and
\* footer without CR and LF.
C6_KeyFileOutcomes ==
    ((pc \in {"keyfile", "dkim"} /\ Done) \/ Passed("dkim")) =>
        IF keyfile.kind # "text" THEN result = "NoDkimForDomain"
        ELSE IF ~Enveloped(keyfile) THEN result = "DkimKeyDecodeFailed"
        ELSE /\ IsSome(dkim)
             /\ Unwrap(dkim).dkim_private_key = WithoutCrLf(Between(keyfile.contents))
             /\ \A i \in 1..Len(Unwrap(dkim).dkim_private_key) :
                    Unwrap(dkim).dkim_private_key[i] \notin {"\n", "\r"}

\* C7: a second run on the same message with the same key file serializes the
\* same text as the first.
C7_SameBytesOnRerun ==
    (IsSome(prev) /\ IsSome(json)) => json = prev

\* the error kinds of the error table, and Io, the typed error of a failed read
ErrorKinds ==
    { "Reqwest", "HeaderValue", "Io", "NoHeaders", "InvalidFrom", "NoSenderDomain",
      "NoDkimForDomain", "DkimKeyDecodeFailed", "MissingHeader", "TooManyHeaders",
      "AttachmentIssue", "InvalidUtf8", "CouldntSerialize", "API" }

\* C9: every run ends with a sent request or with a typed error, never by
\* panicking.
C9_NoAbort ==
    Done => result \in ErrorKinds \cup {"Ok"}

\* the errors that end the transformation before a request exists
TransformationErrors ==
    { "InvalidFrom", "NoSenderDomain", "NoDkimForDomain", "DkimKeyDecodeFailed",
      "MissingHeader", "TooManyHeaders", "AttachmentIssue", "InvalidUtf8",
      "CouldntSerialize" }

\* C2: at most one POST per run, and only once every step before it has passed:
\* a run that ends in a transformation error has sent nothing, a Reply-To with
\* two or more addresses ends in TooManyHeaders with nothing sent, and after the
\* send there is no second one.
C2_SendOnceAfterValidation ==
    /\ sends <= 1
    /\ sends = 1 =>
          /\ pc \in {"send", "response"}
          /\ IsSome(json) /\ IsSome(body) /\ IsSome(subject) /\ IsSome(dkim) /\ IsSome(from)
          /\ result \in {"running", "Ok", "API", "Reqwest"}
    /\ result \in TransformationErrors => sends = 0
    /\ (Len(InputAddrs("Reply-To")) >= 2 /\ Sound("Reply-To")) =>
          /\ sends = 0
          /\ Acted("replyto") => result = "TooManyHeaders"

C2_Witness ==
    sends = 1 /\ result = "API" /\ Len(InputAddrs("Reply-To")) = 1

\* C3: no Subject header ends the run with MissingHeader, two or more with
\* TooManyHeaders, a single one without text with MissingHeader, and a single
\* one with text makes that text the request's subject; an assembled request
\* has one non-empty subject.
C3_SubjectResolution ==
    LET occ == Occurrences("Subject") IN
    /\ Acted("subject") =>
          CASE Len(occ) = 0 -> pc = "subject" /\ result = "MissingHeader"
            [] Len(occ) >= 2 -> pc = "subject" /\ result = "TooManyHeaders"
            [] OTHER ->
                 IF occ[1].value.kind = "Text" /\ occ[1].value.text # ""
                 THEN Passed("subject") /\ subject = Some(occ[1].value.text)
                 ELSE pc = "subject" /\ result = "MissingHeader"
    /\ IsSome(body) =>
          /\ Len(occ) = 1
          /\ Unwrap(body).subject = occ[1].value.text
          /\ Unwrap(body).subject # ""

\* the reserved set of the interface
ReservedNames ==
    { "Arc-Authentication-Results", "Bcc", "Cc", "Content-Transfer-Encoding",
      "Content-Type", "DKIM-Signature", "From", "Message-Id", "Received", "Reply-To",
      "Subject", "To" }

\* the positions of the input's headers that are not reserved
NonReserved == { i \in 1..Len(msg.headers) : HeaderNameOf(msg.headers[i].name) \notin ReservedNames }

\* the keys of a serialized object
Keys(j) == { j[2][i][1] : i \in 1..Len(j[2]) }

LastFrom == Occurrences("From")[Len(Occurrences("From"))].value

\* the input makes step s fail with a typed error
TypedDefect(s) ==
    CASE s = "parse" -> ~msg.parsed
      [] s = "from" ->
            \/ Occurrences("From") = <<>>
            \/ LastFrom.kind # "List"
            \/ Len(LastFrom.list) # 1
            \/ ~IsSome(LastFrom.list[1].email)
      [] s = "keyfile" -> keyfile.kind \in {"absent", "staterr"}
      [] s = "dkim" -> keyfile.kind \in {"noaccess", "notutf8"} \/ (keyfile.kind = "text" /\ ~Enveloped(keyfile))
      [] s = "subject" ->
            \/ Len(Occurrences("Subject")) # 1
            \/ Occurrences("Subject")[1].value.kind # "Text"
      [] s = "attachments" ->
            \E i \in 1..Len(msg.parts.attachments) : ~IsSome(msg.parts.attachments[i].filename)
      [] s = "content" ->
            \E i \in 1..Len(msg.parts.html \o msg.parts.text) :
                LET part == (msg.parts.html \o msg.parts.text)[i] IN
                ~part.bytes.utf8 \/ ~IsSome(part.content_type)
      [] s = "personalization" ->
            Sound("Bcc") /\ Sound("Cc") /\ Occurrences("To") = <<>>
      [] s = "replyto" -> Sound("Reply-To") /\ Len(InputAddrs("Reply-To")) >= 2
      [] OTHER -> FALSE

\* the input makes step s panic
PanicDefect(s) ==
    CASE s = "classify" ->
            \E i \in NonReserved :
                msg.headers[i].raw = <<>> \/ Utf8Len(msg.headers[i].raw[1]) > 1
      [] s = "personalization" -> ~Sound("Bcc") \/ ~Sound("Cc") \/ ~Sound("To")
      [] s = "replyto" ->
            \/ ~Sound("Reply-To")
            \/ (Occurrences("Reply-To") # <<>> /\ InputAddrs("Reply-To") = <<>>)
      [] OTHER -> FALSE

Defective(s) == TypedDefect(s) \/ PanicDefect(s)

\* the errors a step can end the run with
StepErrors(s) ==
    CASE s = "parse" -> {"NoHeaders"}
      [] s = "from" -> {"InvalidFrom"}
      [] s = "keyfile" -> {"NoDkimForDomain"}
      [] s = "dkim" -> {"Io", "DkimKeyDecodeFailed"}
      [] s = "classify" -> {"Panic"}
      [] s = "subject" -> {"MissingHeader", "TooManyHeaders"}
      [] s = "attachments" -> {"AttachmentIssue"}
      [] s = "content" -> {"InvalidUtf8", "AttachmentIssue"}
      [] s = "personalization" -> {"MissingHeader", "Panic"}
      [] s = "replyto" -> {"TooManyHeaders", "Panic"}
      [] s = "send" -> {"Reqwest"}
      [] s = "response" -> {"Ok", "API", "Reqwest"}
      [] OTHER -> {}

\* the order the design gives: parse, classify headers, resolve addresses (From,
\* To, Cc, Bcc, Reply-To), load the DKIM key, extract attachments and bodies,
\* assemble (the Subject), serialize, send
DesignOrder ==
    << "parse", "classify", "from", "personalization", "replyto", "domain", "keyfile",
       "dkim", "attachments", "content", "subject", "serialize", "send", "response" >>

\* the order main() runs in: From, sender domain, key file, classify headers,
\* Subject, attachments, bodies, Bcc/Cc/To, Reply-To, serialize, send
CodeOrder ==
    << "parse", "from", "domain", "keyfile", "dkim", "classify", "subject",
       "attachments", "content", "personalization", "replyto", "serialize",
       "send", "response" >>

Position(order, s) == CHOOSE i \in 1..Len(order) : order[i] = s

Before(order, s) == { order[i] : i \in 1..(Position(order, s) - 1) }

\* C10 as claimed: with defects in several steps the error reported is that of
\* the earliest step in the design's order (no To header and no key file ends
\* with MissingHeader; two Reply-To addresses and a malformed key file end with
\* TooManyHeaders).
C10_DesignOrderPrecedence ==
    (Done /\ TypedDefect(pc)) => \A s \in Before(DesignOrder, pc) : ~TypedDefect(s)

\* C10 as amended, in every state: no step before the one main() is at has a
\* defect, and a run that ended at a step before the send ended at a defective
\* step with one of that step's errors.
C10_EarliestDefect ==
    /\ \A s \in Before(CodeOrder, pc) : ~Defective(s)
    /\ Done => result \in StepErrors(pc)
    /\ (Done /\ Position(CodeOrder, pc) < Position(CodeOrder, "send")) => Defective(pc)

\* C10 as amended, in every step: main() moves from a step to the next one of
\* its order only, so no step runs twice.
C10_OneStepForward ==
    pc' # pc => Position(CodeOrder, pc') = Position(CodeOrder, pc) + 1

\* C10 as amended: the steps run in the order of main() (From, sender domain, key
\* file, classify headers, Subject, attachments, bodies, Bcc/Cc/To, Reply-To,
\* serialize, send), each at most once, and the run ends at the earliest step of
\* that order that the input makes fail, with that step's error or panic.
C10_CodeOrderPrecedence ==
    []C10_EarliestDefect /\ [][C10_OneStepForward]_vars

C10_Witness ==
    /\ pc = "keyfile" /\ result = "NoDkimForDomain"
    /\ Occurrences("To") = <<>>

====
